---- MODULE Spec2Model ----
(***************************************************************************)
(* A model of the LSH / MinHash near-duplicate index of src/lsh:           *)
(* Shingler, MultiplyHashFamily, the (b, r, n) resolution of               *)
(* LSHCache.__init__, and the operations insert, insert_batch,             *)
(* get_dup_buckets and get_dups of LSHCache.                               *)
(*                                                                         *)
(* Python values are represented as follows.                               *)
(*   None            the number NoneVal (-1) where an id or a dimension is *)
(*                   expected, the token 0 inside a shingle                *)
(*   tokens          the numbers of Tokens; odd ones are Python ints, even *)
(*                   ones are one-character strings                        *)
(*   documents       sequences of tokens                                   *)
(*   lists           sequences; the code's index i is i+1 here             *)
(*   dict            a function whose DOMAIN is the set of keys            *)
(*   exceptions      the field kind of the record ret                      *)
(***************************************************************************)
EXTENDS Integers, Sequences, FiniteSets, TLC

\* ---------------------------------------------------------------- bounds
MaxId == 2
MaxDocs == 2
MaxBatch == 2
MaxLookups == 1
MaxDim == 12
MaxShingle == 3
MaxHashes == 2
MaxDraws == 4
MaxExp == 3
SimSteps == 2
NumSeeds == 1
HashBits == 8

\* ------------------------------------------------------- Python built-ins
NoneVal == -1
NoneTok == 0

HashMod == 2 ^ HashBits
\* sys.maxint of a HashBits-wide signed integer
MaxInt == 2 ^ (HashBits - 1) - 1

ToUnsigned(x) == x % HashMod
ToSigned(x) == IF x % HashMod > MaxInt THEN (x % HashMod) - HashMod ELSE x % HashMod

RECURSIVE Xor(_, _)
Xor(a, c) ==
  IF a = 0 THEN c
  ELSE IF c = 0 THEN a
  ELSE (((a % 2) + (c % 2)) % 2) + 2 * Xor(a \div 2, c \div 2)

IsIntToken(t) == t # NoneTok /\ t % 2 = 1

\* hash(None), hash(int) and hash(str) of the interpreter
NoneHash == 97
TokenHash(t) ==
  IF t = NoneTok THEN NoneHash
  ELSE IF IsIntToken(t) THEN t
  ELSE ToSigned(t * 1000003 + 8)

\* hash(tuple): x = 0x345678; for each item x = (x ^ hash(item)) * mult;
\* mult += 82520 + 2*remaining; finally x += 97531 (wrapping at the word size)
RECURSIVE TupleHashFrom(_, _, _, _)
TupleHashFrom(hs, k, x, mult) ==
  IF k > Len(hs) THEN ToSigned(x + 97531)
  ELSE TupleHashFrom(hs, k + 1,
                     (Xor(x, ToUnsigned(hs[k])) * mult) % HashMod,
                     (mult + 82520 + 2 * (Len(hs) - k)) % HashMod)

TupleHash(hs) == TupleHashFrom(hs, 1, 3430008 % HashMod, 1000003 % HashMod)

\* hash of a tuple of tokens (shingle) and of a tuple of ints (band slice)
ShingleHash(sh) == TupleHash([k \in 1..Len(sh) |-> TokenHash(sh[k])])
IntTupleHash(t) == TupleHash(t)

\* random.randint(1, hi) as the k-th draw after random.seed(seed)
RandInt(seed, k, hi) == ((seed * 7919 + k * 104729 + seed * k * 31) % hi) + 1

\* random.getrandbits(word size) as the k-th draw after random.seed(seed)
RandBits(seed, k) == (seed * 7919 + k * 104729 + seed * k * 31) % HashMod

\* the generator of the module random: the seed it was last given and the
\* number of draws made since; drawn is the history of that number
NoRng == [seed |-> 0, pos |-> 0, drawn |-> 0]

\* random.seed(s) keeping the position of the generator
SeedRng_keep(rng0, s) == [seed |-> s, pos |-> rng0.pos, drawn |-> 0]

\* random.seed(s)
SeedRng(rng0, s) == [seed |-> s, pos |-> 0, drawn |-> 0]

\* the generator after k more draws
Advance(rng0, k) == [rng0 EXCEPT !.pos = @ + k, !.drawn = @ + k]

\* --------------------------------------------------------------- Shingler
Pad(c) == [k \in 1..c |-> NoneTok]

\* Shingler.__init__(shingle_len, max_shingle); max_shingle is NoneVal when
\* omitted, and "if max_shingle:" takes None and 0 alike
ShinglerNew(shingle_len, max_shingle) ==
  IF ~(shingle_len > 0)
    THEN [ok |-> FALSE, begin |-> 0, end |-> 0]
  ELSE IF max_shingle # NoneVal /\ max_shingle # 0
    THEN IF max_shingle >= shingle_len
           THEN [ok |-> TRUE, begin |-> shingle_len, end |-> max_shingle + 1]
           ELSE [ok |-> FALSE, begin |-> 0, end |-> 0]
  ELSE [ok |-> TRUE, begin |-> shingle_len, end |-> shingle_len + 1]

\* the inner loop stopping one position early
RECURSIVE ShingleLen_short(_, _, _)
ShingleLen_short(doc, k, j) ==
  IF j > Len(doc) - k THEN <<>>
  ELSE <<SubSeq(doc, j, j + k - 1)>> \o ShingleLen_short(doc, k, j + 1)

\* for j in xrange(len(doc) - (n-1)): yield tuple(doc[j:j+n])
RECURSIVE ShingleLen(_, _, _)
ShingleLen(doc, k, j) ==
  IF j > Len(doc) - (k - 1) THEN <<>>
  ELSE <<SubSeq(doc, j, j + k - 1)>> \o ShingleLen(doc, k, j + 1)

RECURSIVE ShingleFrom(_, _, _)
ShingleFrom(doc, k, endk) ==
  IF k >= endk THEN <<>>
  ELSE (IF Len(doc) < k
          THEN <<Pad(k - Len(doc)) \o doc>>
          ELSE ShingleLen(doc, k, 1))
       \o ShingleFrom(doc, k + 1, endk)

\* sh is a record [begin, end] holding _begin_shingle and _end_shingle
Shingle(sh, doc) == ShingleFrom(doc, sh.begin, sh.end)

DefaultShingler == [begin |-> 2, end |-> 3]

\* ---------------------------------------------------- MultiplyHashFamily
UniverseSize == 37

\* MultiplyHashFamily.__init__ with the generator pos draws after its seeding
MultiplyDraws(seed, pos, num_hashes, num_buckets) ==
  [i \in 1..num_hashes |->
     [j \in 1..3 |-> RandInt(seed, pos + 3 * (i - 1) + j, num_buckets)]]

\* MultiplyHashFamily.__init__ right after random.seed(seed)
MultiplyParams(seed, num_hashes, num_buckets) ==
  MultiplyDraws(seed, 0, num_hashes, num_buckets)

MultHash(x, p) == p[1] * (x \div 16) + p[2] * x + p[3]

Hashn(params, x) == [i \in 1..Len(params) |-> MultHash(x, params[i])]

\* ---------------------------------------------------------- XORHashFamily
\* XORHashFamily.__init__: one random mask per hash
XorMasks(seed, pos, num_hashes) ==
  [i \in 1..num_hashes |-> RandBits(seed, pos + i)]

XorHash(x, mask) == Xor(x, mask)

\* x = x & 0xffffffff (at the word size of the model), then x ^ mask
XorHashn(masks, x) == [i \in 1..Len(masks) |-> XorHash(x % HashMod, masks[i])]

\* --------------------------------------------------- families as objects
NoFamily ==
  [variant |-> "none", num_hashes |-> 0, num_buckets |-> 0, params |-> <<>>,
   seedAt |-> 0, drawnAt |-> 0]

\* the number of draws the constructor of a family makes
FamilyDraws(variant, num_hashes) ==
  IF variant = "xor" THEN num_hashes ELSE 3 * num_hashes

\* minhash(num_hashes, num_buckets) with the generator in state rng0;
\* seedAt and drawnAt record that state
FamilyNew(variant, rng0, num_hashes, num_buckets) ==
  [variant |-> variant, num_hashes |-> num_hashes, num_buckets |-> num_buckets,
   params |-> IF variant = "xor"
                THEN XorMasks(rng0.seed, rng0.pos, num_hashes)
                ELSE MultiplyDraws(rng0.seed, rng0.pos, num_hashes, num_buckets),
   seedAt |-> rng0.seed, drawnAt |-> rng0.drawn]

\* list(family.hashn(x))
FamilyHashn(f, x) ==
  IF f.variant = "xor" THEN XorHashn(f.params, x) ELSE Hashn(f.params, x)

\* ------------------------------------------------- LSHCache: pure helpers
\* _get_shingle_vec: the set of shingle fingerprints of doc
GetShingleVec(sh, doc) ==
  LET shs == Shingle(sh, doc)
  IN  {ShingleHash(shs[k]) % UniverseSize : k \in 1..Len(shs)}

\* the inner loop without the reduction h = h % self._universe_size
SigUpdate_nomod(mhash, hs) ==
  [i \in 1..Len(mhash) |-> IF hs[i] < mhash[i] THEN hs[i] ELSE mhash[i]]

\* one pass of the inner loop of _get_sig over the hashes of one shingle
SigUpdate(mhash, hs) ==
  [i \in 1..Len(mhash) |->
     IF hs[i] % UniverseSize < mhash[i] THEN hs[i] % UniverseSize ELSE mhash[i]]

RECURSIVE SigFold(_, _, _)
SigFold(params, vec, mhash) ==
  IF vec = {} THEN mhash
  ELSE LET x == CHOOSE y \in vec : TRUE
       IN  SigFold(params, vec \ {x}, SigUpdate(mhash, Hashn(params, x)))

\* _get_sig: the minhash signature of length n
GetSig(params, vec) == SigFold(params, vec, [i \in 1..Len(params) |-> MaxInt])

\* _get_lsh: one band key per band of r rows
GetLsh(nb, nr, sig) ==
  [i \in 1..nb |-> IntTupleHash(SubSeq(sig, nr * (i - 1) + 1, nr * i))]

\* _get_lsh_from_doc
GetLshFromDoc(c, doc) ==
  GetLsh(c.b, c.r, GetSig(c.params, GetShingleVec(c.shingler, doc)))

\* ------------------------------------------- LSHCache.__init__: (b, r, n)
IntSqrt(m) == CHOOSE k \in 0..m : k * k <= m /\ (k + 1) * (k + 1) > m

\* the search run upwards: the smallest divisor in 2..cand
FactorFrom_smallest(m, cand) ==
  LET ds == {k \in 2..cand : m % k = 0}
  IN  IF ds = {} THEN NoneVal ELSE CHOOSE k \in ds : \A j \in ds : k <= j

\* for b in xrange(int(sqrt(n)), 1, -1): if n % b == 0: break
RECURSIVE FactorFrom(_, _)
FactorFrom(m, cand) ==
  IF cand <= 1 THEN NoneVal
  ELSE IF m % cand = 0 THEN cand
  ELSE FactorFrom(m, cand - 1)

CfgError == [ok |-> FALSE, b |-> NoneVal, r |-> NoneVal, n |-> NoneVal]
\* the resolution without its closing assertion
CfgCheck_noassert(pb, pr, pn) == [ok |-> TRUE, b |-> pb, r |-> pr, n |-> pn]

\* assert b*r==n
CfgCheck(pb, pr, pn) ==
  IF pb * pr = pn THEN [ok |-> TRUE, b |-> pb, r |-> pr, n |-> pn] ELSE CfgError

\* the arguments b, r, n of the constructor (NoneVal when omitted)
Resolve(ab, ar, an) ==
  LET b1 == IF an = NoneVal /\ ar = NoneVal /\ ab = NoneVal THEN 20 ELSE ab
      r1 == IF an = NoneVal /\ ar = NoneVal /\ ab = NoneVal THEN 5 ELSE ar
  IN  IF an = NoneVal
        THEN IF r1 # NoneVal /\ b1 # NoneVal
               THEN CfgCheck(b1, r1, b1 * r1)
               ELSE CfgError
      ELSE IF b1 = NoneVal /\ r1 # NoneVal
        THEN IF an % r1 = 0 THEN CfgCheck(an \div r1, r1, an) ELSE CfgError
      ELSE IF r1 = NoneVal /\ b1 # NoneVal
        THEN IF an % b1 = 0 THEN CfgCheck(b1, an \div b1, an) ELSE CfgError
      ELSE IF b1 = NoneVal /\ r1 = NoneVal
        THEN LET f == FactorFrom(an, IntSqrt(an))
             IN  IF f = NoneVal THEN CfgError ELSE CfgCheck(f, an \div f, an)
      ELSE CfgCheck(b1, r1, an)

\* ------------------------------------------------ theoretical_percent_found
\* a fraction num/den stands for the float; with den a power of two and the
\* exponents below the float arithmetic of the code is exact
Frac(n, d) == [num |-> n, den |-> d]
FracPow(q, e) == Frac(q.num ^ e, q.den ^ e)
OneMinus(q) == Frac(q.den - q.num, q.den)

\* the curve with the roles of _r and _b exchanged
TheoreticalPercentFound_swapped(c, pct_similar) ==
  OneMinus(FracPow(OneMinus(FracPow(pct_similar, c.b)), c.r))

\* 1 - (1-pct_similar**self._r)**self._b
TheoreticalPercentFound(c, pct_similar) ==
  OneMinus(FracPow(OneMinus(FracPow(pct_similar, c.r)), c.b))

\* ---------------------------------------------------------------- inputs
Tokens == {1, 2}
SeqsUpTo(S, m) == UNION {[1..k -> S] : k \in 0..m}
\* documents: empty, shorter than a shingle (padded), one shingle (two of
\* them of the form (item, int)), and two shingles with equal shingle sets
Docs == {<<>>, <<1>>, <<2>>, <<1, 1>>, <<2, 1>>, <<1, 2>>,
         <<1, 2, 1>>, <<2, 1, 2>>}
IdArgs == {NoneVal} \cup 0..MaxId
DimArgs == {NoneVal} \cup 1..MaxDim
\* the (b, r, n) the caches under test are built with
CacheDims == {<<2, 1, NoneVal>>, <<NoneVal, 2, 4>>}

Seeds == 1..NumSeeds
\* the arguments of Shingler(shingle_len, max_shingle): lengths from -2 up,
\* max_shingle omitted (NoneVal), negative (-2), 0 or positive
\* the seeds given to random.seed, the values hashed and the family slots
RngSeeds == {1, 2}
HashInputs == {0, 5, 20, 300}
Variants == {"xor", "multiply"}
FamilySlots == {1, 2}
\* shingle fingerprints (values below UniverseSize) handed to _get_sig
Fingerprints == {0, 5, 16, 20, 36}
ShingleLenArgs == {-2, 0} \cup 1..MaxShingle
MaxShingleArgs == {NoneVal, -2} \cup 0..MaxShingle

MkArgs(ab, ar, an, seed, ss, dm) ==
  [b |-> ab, r |-> ar, n |-> an, seed |-> seed,
   store_signatures |-> ss, dups_on_insert |-> dm]

\* the constructor arguments of the caches the operations are run on
CacheArgs ==
  {MkArgs(d[1], d[2], d[3], seed, ss, TRUE) :
     d \in CacheDims, seed \in Seeds, ss \in BOOLEAN}

\* the same caches built with dups_on_insert=False
DocIdArgs == {[a EXCEPT !.dups_on_insert = FALSE] : a \in CacheArgs}

NoCfg ==
  [b |-> 0, r |-> 0, n |-> 0, params |-> <<>>, shingler |-> DefaultShingler,
   store_signatures |-> FALSE, dups_on_insert |-> TRUE]

\* LSHCache.__init__ after the resolution of (b, r, n)
Construct(a) ==
  LET res == Resolve(a.b, a.r, a.n)
  IN  IF res.ok
        THEN [ok |-> TRUE,
              cfg |-> [b |-> res.b, r |-> res.r, n |-> res.n,
                       params |-> MultiplyParams(a.seed, res.n, UniverseSize),
                       shingler |-> DefaultShingler,
                       store_signatures |-> a.store_signatures,
                       dups_on_insert |-> a.dups_on_insert]]
        ELSE [ok |-> FALSE, cfg |-> NoCfg]

\* _get_lsh_from_doc tabulated over the caches and the documents above
LshTable ==
  [c \in {Construct(a).cfg : a \in CacheArgs \cup DocIdArgs} |->
     [doc \in Docs |-> GetLshFromDoc(c, doc)]]

LshOf(c, doc) == LshTable[c][doc]

\* ------------------------------------------------------------------ state
VARIABLES
  phase,    \* "args" before the constructor ran, then "ready" or "error"
  args,     \* the constructor arguments [b, r, n, seed, store_signatures, dups_on_insert]
  cfg,      \* _b, _r, _n, the hash parameters, _shingler, _store_signatures, _Accumulator
  seen,     \* _seen: doc id -> band keys, or <<>> for None
  next_id,  \* _next_id
  cache,    \* _cache: one dict (band key -> list of doc ids) per band
  docOf,    \* history: the document each id was inserted with
  lookups,  \* history: the number of get_dup_buckets / get_dups calls so far
  ret,      \* the last public call: its arguments and its outcome
  rng,      \* the state of the module random
  fams      \* the hash families built so far, one per slot

vars == <<phase, args, cfg, seen, next_id, cache, docOf, lookups, ret, rng, fams>>

Range(f) == {f[k] : k \in DOMAIN f}
MaxOf(S) == CHOOSE m \in S : \A k \in S : k <= m

NoRet ==
  [op |-> "none", doc |-> <<>>, docs |-> <<>>, idArg |-> NoneVal, id |-> NoneVal,
   fam |-> 0, x |-> 0, vec |-> {}, kind |-> "ok", result |-> <<>>]

NoFams == [k \in FamilySlots |-> NoFamily]

\* the mutable part of a cache, as one value
St == [seen |-> seen, next_id |-> next_id, cache |-> cache, docOf |-> docOf]

EmptyDict == [k \in {} |-> <<>>]
EmptyCache(nb) == [i \in 1..nb |-> EmptyDict]

\* defaultdict(list).__getitem__: a missing key is created with an empty list
DictTouch(d, key) ==
  IF key \in DOMAIN d THEN d ELSE [k \in DOMAIN d \cup {key} |-> IF k = key THEN <<>> ELSE d[k]]

DictSet(d, key, val) == [k \in DOMAIN d \cup {key} |-> IF k = key THEN val ELSE d[k]]

\* ------------------------------------------------------------ accumulators
\* AccumulatorDups / AccumulatorDocId; acc is the _dups set
AccumUpdate(dupsMode, acc, arr) == IF dupsMode THEN acc \cup Range(arr) ELSE acc
\* result() of AccumulatorDocId returning the id after the inserted one
AccumResult_following(dupsMode, acc, doc_id) == IF dupsMode THEN acc ELSE doc_id + 1
AccumResult(dupsMode, acc, doc_id) == IF dupsMode THEN acc ELSE doc_id

\* ------------------------------------------------------------- _insert_lsh
\* arr.append(doc_id) left out
BucketAppend_skip(arr, doc_id) == arr

\* the id appended twice
BucketAppend_twice(arr, doc_id) == Append(Append(arr, doc_id), doc_id)

\* the id put in front of the list
BucketAppend_front(arr, doc_id) == <<doc_id>> \o arr

\* arr.append(doc_id)
BucketAppend(arr, doc_id) == Append(arr, doc_id)

\* the assertion that never fires
AlreadySeen_never(sn, doc_id) == FALSE

\* doc_id in self._seen
AlreadySeen(sn, doc_id) == doc_id \in DOMAIN sn

\* self._next_id = doc_id+1 without the comparison
BumpNextId_always(nid, doc_id) == doc_id + 1

\* if doc_id >= self._next_id: self._next_id = doc_id+1
BumpNextId(nid, doc_id) == IF doc_id >= nid THEN doc_id + 1 ELSE nid

\* the loop feeding only the bucket of the first band to the accumulator
RECURSIVE InsertLoop_firstBand(_, _, _, _, _, _)
InsertLoop_firstBand(dupsMode, ch, lsh, doc_id, i, acc) ==
  IF i > Len(lsh) THEN [cache |-> ch, acc |-> acc]
  ELSE LET d   == DictTouch(ch[i], lsh[i])
           arr == d[lsh[i]]
       IN  InsertLoop_firstBand(dupsMode,
                      [ch EXCEPT ![i] = DictSet(d, lsh[i], BucketAppend(arr, doc_id))],
                      lsh, doc_id, i + 1,
                      IF i = 1 THEN AccumUpdate(dupsMode, acc, arr) ELSE acc)

\* the loop with the append placed before the accumulator update
RECURSIVE InsertLoop_appendFirst(_, _, _, _, _, _)
InsertLoop_appendFirst(dupsMode, ch, lsh, doc_id, i, acc) ==
  IF i > Len(lsh) THEN [cache |-> ch, acc |-> acc]
  ELSE LET d   == DictTouch(ch[i], lsh[i])
           arr == BucketAppend(d[lsh[i]], doc_id)
       IN  InsertLoop_appendFirst(dupsMode,
                      [ch EXCEPT ![i] = DictSet(d, lsh[i], arr)],
                      lsh, doc_id, i + 1, AccumUpdate(dupsMode, acc, arr))

\* the loop over the bands: read the bucket, update the accumulator, append
RECURSIVE InsertLoop(_, _, _, _, _, _)
InsertLoop(dupsMode, ch, lsh, doc_id, i, acc) ==
  IF i > Len(lsh) THEN [cache |-> ch, acc |-> acc]
  ELSE LET d   == DictTouch(ch[i], lsh[i])
           arr == d[lsh[i]]
       IN  InsertLoop(dupsMode,
                      [ch EXCEPT ![i] = DictSet(d, lsh[i], BucketAppend(arr, doc_id))],
                      lsh, doc_id, i + 1, AccumUpdate(dupsMode, acc, arr))

InsertLsh(c, st, doc, lsh, doc_id) ==
  IF AlreadySeen(st.seen, doc_id)
    THEN [st |-> st, kind |-> "AssertionError", result |-> <<>>, id |-> doc_id]
    ELSE LET lp == InsertLoop(c.dups_on_insert, st.cache, lsh, doc_id, 1, {})
         IN  [st |-> [seen |-> DictSet(st.seen, doc_id,
                                       IF c.store_signatures THEN lsh ELSE <<>>),
                      next_id |-> BumpNextId(st.next_id, doc_id),
                      cache |-> lp.cache,
                      docOf |-> DictSet(st.docOf, doc_id, doc)],
              kind |-> "ok",
              result |-> AccumResult(c.dups_on_insert, lp.acc, doc_id),
              id |-> doc_id]

\* LSHCache.insert
InsertCall(c, st, doc, idArg) ==
  LET doc_id == IF idArg = NoneVal THEN st.next_id ELSE idArg
  IN  InsertLsh(c, st, doc, LshOf(c, doc), doc_id)

\* ------------------------------------------------------------ insert_batch
\* one element of docs: a (doc, int) pair is unpacked into insert(doc, id)
BatchElem(c, st, e) ==
  IF Len(e) = 2 /\ IsIntToken(e[2])
    THEN IF IsIntToken(e[1])
           \* insert(int, id): len(doc) of an int raises in Shingler.shingle
           THEN [st |-> st, kind |-> "TypeError", result |-> <<>>, id |-> e[2]]
           \* insert(str, id): a one-character string is a one-token document
           ELSE InsertCall(c, st, <<e[1]>>, e[2])
    ELSE InsertCall(c, st, e, NoneVal)

\* the loop putting each result in front of the list
RECURSIVE BatchFrom_prepend(_, _, _, _, _)
BatchFrom_prepend(c, st, docs, i, dups) ==
  IF i > Len(docs) THEN [st |-> st, kind |-> "ok", result |-> dups]
  ELSE LET one == BatchElem(c, st, docs[i])
       IN  IF one.kind # "ok"
             THEN [st |-> one.st, kind |-> one.kind, result |-> <<>>]
             ELSE BatchFrom_prepend(c, one.st, docs, i + 1, <<one.result>> \o dups)

RECURSIVE BatchFrom(_, _, _, _, _)
BatchFrom(c, st, docs, i, dups) ==
  IF i > Len(docs) THEN [st |-> st, kind |-> "ok", result |-> dups]
  ELSE LET one == BatchElem(c, st, docs[i])
       IN  IF one.kind # "ok"
             THEN [st |-> one.st, kind |-> one.kind, result |-> <<>>]
             ELSE BatchFrom(c, one.st, docs, i + 1, Append(dups, one.result))

InsertBatchCall(c, st, docs) == BatchFrom(c, st, docs, 1, <<>>)

\* ------------------------------------------------ get_dup_buckets, get_dups
\* the head of the generator get_dup_buckets: which band keys to read
LookupLsh(c, st, doc, idArg) ==
  IF doc # <<>>
    THEN [kind |-> "ok", lsh |-> LshOf(c, doc)]
  ELSE IF ~c.store_signatures
    THEN [kind |-> "AssertionError", lsh |-> <<>>]
  ELSE IF idArg = NoneVal
    THEN [kind |-> "AssertionError", lsh |-> <<>>]
  ELSE IF idArg \notin DOMAIN st.seen
    THEN [kind |-> "KeyError", lsh |-> <<>>]
  ELSE [kind |-> "ok", lsh |-> st.seen[idArg]]

\* the generator consumed to its end: yield self._cache[i][band_bucket]
RECURSIVE YieldAll(_, _, _, _)
YieldAll(ch, lsh, i, out) ==
  IF i > Len(lsh) THEN [cache |-> ch, buckets |-> out]
  ELSE LET d == DictTouch(ch[i], lsh[i])
       IN  YieldAll([ch EXCEPT ![i] = d], lsh, i + 1, Append(out, d[lsh[i]]))

GetDupBucketsCall(c, st, doc, idArg) ==
  LET h == LookupLsh(c, st, doc, idArg)
  IN  IF h.kind # "ok"
        THEN [cache |-> st.cache, kind |-> h.kind, result |-> <<>>]
        ELSE LET y == YieldAll(st.cache, h.lsh, 1, <<>>)
             IN  [cache |-> y.cache, kind |-> "ok", result |-> y.buckets]

\* set.update(acc, bucket) called through the class: acc must be a set
\* instance; the call returns None.  acc is "type" (the class set itself),
\* "set" (an instance) or "none".
SetUpdate(acc, bucket) ==
  IF acc.tag = "set"
    THEN [kind |-> "ok", val |-> [tag |-> "none", elems |-> {}]]
    ELSE [kind |-> "TypeError", val |-> acc]

\* all_buckets.discard(doc_id) on the value reduce returned
Discard(acc, doc_id) ==
  IF acc.tag = "set" THEN [kind |-> "ok", val |-> [acc EXCEPT !.elems = @ \ {doc_id}]]
  ELSE IF acc.tag = "type" THEN [kind |-> "TypeError", val |-> acc]
  ELSE [kind |-> "AttributeError", val |-> acc]

\* reduce(set.update, buckets, set) over the lazy generator: each bucket is
\* read (and its key created) just before the function is applied to it
RECURSIVE ReduceFrom(_, _, _, _)
ReduceFrom(ch, lsh, i, acc) ==
  IF i > Len(lsh) THEN [cache |-> ch, kind |-> "ok", val |-> acc]
  ELSE LET d  == DictTouch(ch[i], lsh[i])
           ch2 == [ch EXCEPT ![i] = d]
           u  == SetUpdate(acc, d[lsh[i]])
       IN  IF u.kind # "ok"
             THEN [cache |-> ch2, kind |-> u.kind, val |-> acc]
             ELSE ReduceFrom(ch2, lsh, i + 1, u.val)

SetType == [tag |-> "type", elems |-> {}]

\* _reduce_dup_buckets(get_dup_buckets(doc, doc_id), doc_id)
GetDupsCall(c, st, doc, idArg) ==
  LET h == LookupLsh(c, st, doc, idArg)
  IN  IF h.kind # "ok"
        THEN [cache |-> st.cache, kind |-> h.kind, result |-> {}]
        ELSE LET rd == ReduceFrom(st.cache, h.lsh, 1, SetType)
             IN  IF rd.kind # "ok"
                   THEN [cache |-> rd.cache, kind |-> rd.kind, result |-> {}]
                 ELSE IF idArg = NoneVal
                   THEN [cache |-> rd.cache,
                         kind |-> IF rd.val.tag = "set" THEN "ok" ELSE "NotASet",
                         result |-> rd.val.elems]
                 ELSE LET dc == Discard(rd.val, idArg)
                      IN  [cache |-> rd.cache, kind |-> dc.kind, result |-> dc.val.elems]

\* ------------------------------------------------------------------- Init
\* a cache right after a successful construction
Init ==
  \E a \in CacheArgs :
    LET k == Construct(a)
    IN  /\ k.ok
        /\ phase = "ready"
        /\ args = a
        /\ cfg = k.cfg
        /\ seen = EmptyDict
        /\ next_id = 0
        /\ cache = EmptyCache(k.cfg.b)
        /\ docOf = EmptyDict
        /\ lookups = 0
        /\ ret = NoRet
        /\ rng = NoRng
        /\ fams = NoFams

\* a cache right after a successful construction with dups_on_insert=False
InitDocId ==
  \E a \in DocIdArgs :
    LET k == Construct(a)
    IN  /\ k.ok
        /\ phase = "ready"
        /\ args = a
        /\ cfg = k.cfg
        /\ seen = EmptyDict
        /\ next_id = 0
        /\ cache = EmptyCache(k.cfg.b)
        /\ docOf = EmptyDict
        /\ lookups = 0
        /\ ret = NoRet
        /\ rng = NoRng
        /\ fams = NoFams

\* the constructor about to be called with arbitrary (b, r, n)
InitConfig ==
  \E ab \in DimArgs, ar \in DimArgs, an \in DimArgs :
    /\ phase = "args"
    /\ args = MkArgs(ab, ar, an, 1, FALSE, TRUE)
    /\ cfg = NoCfg
    /\ seen = EmptyDict
    /\ next_id = 0
    /\ cache = <<>>
    /\ docOf = EmptyDict
    /\ lookups = 0
    /\ ret = NoRet
    /\ rng = NoRng
    /\ fams = NoFams

\* Shingler about to be constructed with arbitrary arguments
InitShingler ==
  \E sl \in ShingleLenArgs, ms \in MaxShingleArgs :
    /\ phase = "args"
    /\ args = [shingle_len |-> sl, max_shingle |-> ms]
    /\ cfg = NoCfg
    /\ seen = EmptyDict
    /\ next_id = 0
    /\ cache = <<>>
    /\ docOf = EmptyDict
    /\ lookups = 0
    /\ ret = NoRet
    /\ rng = NoRng
    /\ fams = NoFams

\* no family built yet, the generator not yet seeded
InitHash ==
  /\ phase = "hash"
  /\ args = MkArgs(NoneVal, NoneVal, NoneVal, 0, FALSE, TRUE)
  /\ cfg = NoCfg
  /\ seen = EmptyDict
  /\ next_id = 0
  /\ cache = <<>>
  /\ docOf = EmptyDict
  /\ lookups = 0
  /\ ret = NoRet
  /\ rng = NoRng
  /\ fams = NoFams

\* ---------------------------------------------------------------- actions
\* random.seed(s)
RandomSeed ==
  /\ phase = "hash"
  /\ \E s \in RngSeeds : rng' = SeedRng(rng, s)
  /\ ret' = [NoRet EXCEPT !.op = "seed"]
  /\ UNCHANGED <<phase, args, cfg, seen, next_id, cache, docOf, lookups, fams>>

\* fams[slot] = XORHashFamily(nh, U) or MultiplyHashFamily(nh, U)
NewFamily ==
  /\ phase = "hash"
  /\ \E slot \in FamilySlots, v \in Variants, nh \in 1..MaxHashes :
       /\ rng.pos + FamilyDraws(v, nh) <= MaxDraws
       /\ fams' = [fams EXCEPT ![slot] = FamilyNew(v, rng, nh, UniverseSize)]
       /\ rng' = Advance(rng, FamilyDraws(v, nh))
       /\ ret' = [NoRet EXCEPT !.op = "family", !.fam = slot]
  /\ UNCHANGED <<phase, args, cfg, seen, next_id, cache, docOf, lookups>>

\* list(fams[slot].hashn(x))
FamilyHash ==
  /\ phase = "hash"
  /\ \E slot \in FamilySlots, x \in HashInputs :
       /\ fams[slot].variant # "none"
       /\ ret' = [NoRet EXCEPT !.op = "hashn", !.fam = slot, !.x = x,
                               !.result = FamilyHashn(fams[slot], x)]
  /\ UNCHANGED <<phase, args, cfg, seen, next_id, cache, docOf, lookups, rng, fams>>

\* Shingler(shingle_len, max_shingle)
NewShingler ==
  /\ phase = "args"
  /\ LET k == ShinglerNew(args.shingle_len, args.max_shingle)
     IN  /\ phase' = IF k.ok THEN "ready" ELSE "error"
         /\ cfg' = IF k.ok
                     THEN [cfg EXCEPT !.shingler = [begin |-> k.begin, end |-> k.end]]
                     ELSE cfg
         /\ ret' = [NoRet EXCEPT !.op = "Shingler",
                                 !.kind = IF k.ok THEN "ok" ELSE "AssertionError"]
  /\ UNCHANGED <<args, seen, next_id, cache, docOf, lookups, rng, fams>>

\* list(shingler.shingle(doc))
ShingleDoc ==
  /\ phase = "ready"
  /\ \E doc \in Docs :
       ret' = [NoRet EXCEPT !.op = "shingle", !.doc = doc,
                           !.result = Shingle(cfg.shingler, doc)]
  /\ UNCHANGED <<phase, args, cfg, seen, next_id, cache, docOf, lookups, rng, fams>>

\* LSHCache(b, r, n, ...)
New ==
  /\ phase = "args"
  /\ LET k == Construct(args)
     IN  /\ phase' = IF k.ok THEN "ready" ELSE "error"
         /\ cfg' = k.cfg
         /\ cache' = IF k.ok THEN EmptyCache(k.cfg.b) ELSE <<>>
         /\ ret' = [NoRet EXCEPT !.op = "new",
                                 !.kind = IF k.ok THEN "ok" ELSE "AssertionError"]
  /\ UNCHANGED <<args, seen, next_id, docOf, lookups, rng, fams>>

\* cache.theoretical_percent_found(p / SimSteps)
PercentFound ==
  /\ phase = "ready"
  /\ cfg.b <= MaxExp /\ cfg.r <= MaxExp
  /\ \E p \in 0..SimSteps :
       ret' = [NoRet EXCEPT !.op = "theoretical_percent_found", !.x = p,
                 !.result = TheoreticalPercentFound(cfg, Frac(p, SimSteps))]
  /\ UNCHANGED <<phase, args, cfg, seen, next_id, cache, docOf, lookups, rng, fams>>

\* cache._get_sig(shingle_vec)
GetSigOf ==
  /\ phase = "ready"
  /\ \E vec \in SUBSET Fingerprints :
       ret' = [NoRet EXCEPT !.op = "_get_sig", !.vec = vec,
                           !.result = GetSig(cfg.params, vec)]
  /\ UNCHANGED <<phase, args, cfg, seen, next_id, cache, docOf, lookups, rng, fams>>

\* the caller is between two calls: the previous result has been consumed
Idle == phase = "ready" /\ ret.op = "none"

\* the caller drops the result of the call that just returned
Return ==
  /\ phase = "ready"
  /\ ret.op # "none"
  /\ ret' = NoRet
  /\ UNCHANGED <<phase, args, cfg, seen, next_id, cache, docOf, lookups, rng, fams>>

\* cache.insert(doc, doc_id)
Insert ==
  /\ Idle
  /\ Cardinality(DOMAIN seen) < MaxDocs
  /\ \E doc \in Docs, idArg \in IdArgs :
       LET o == InsertCall(cfg, St, doc, idArg)
       IN  /\ seen' = o.st.seen
           /\ next_id' = o.st.next_id
           /\ cache' = o.st.cache
           /\ docOf' = o.st.docOf
           /\ ret' = [NoRet EXCEPT !.op = "insert", !.doc = doc, !.idArg = idArg,
                                   !.id = o.id, !.kind = o.kind, !.result = o.result]
  /\ UNCHANGED <<phase, args, cfg, lookups, rng, fams>>

\* cache.insert_batch(docs)
InsertBatch ==
  /\ Idle
  /\ \E docs \in SeqsUpTo(Docs, MaxBatch) :
       /\ Cardinality(DOMAIN seen) + Len(docs) <= MaxDocs
       /\ LET o == InsertBatchCall(cfg, St, docs)
          IN  /\ seen' = o.st.seen
              /\ next_id' = o.st.next_id
              /\ cache' = o.st.cache
              /\ docOf' = o.st.docOf
              /\ ret' = [NoRet EXCEPT !.op = "insert_batch", !.docs = docs,
                                      !.kind = o.kind, !.result = o.result]
  /\ UNCHANGED <<phase, args, cfg, lookups, rng, fams>>

\* list(cache.get_dup_buckets(doc, doc_id))
GetDupBuckets ==
  /\ Idle
  /\ lookups < MaxLookups
  /\ lookups' = lookups + 1
  /\ \E doc \in Docs, idArg \in IdArgs :
       LET o == GetDupBucketsCall(cfg, St, doc, idArg)
       IN  /\ cache' = o.cache
           /\ ret' = [NoRet EXCEPT !.op = "get_dup_buckets", !.doc = doc,
                                   !.idArg = idArg, !.id = idArg,
                                   !.kind = o.kind, !.result = o.result]
  /\ UNCHANGED <<phase, args, cfg, seen, next_id, docOf, rng, fams>>

\* cache.get_dups(doc, doc_id)
GetDups ==
  /\ Idle
  /\ lookups < MaxLookups
  /\ lookups' = lookups + 1
  /\ \E doc \in Docs, idArg \in IdArgs :
       LET o == GetDupsCall(cfg, St, doc, idArg)
       IN  /\ cache' = o.cache
           /\ ret' = [NoRet EXCEPT !.op = "get_dups", !.doc = doc,
                                   !.idArg = idArg, !.id = idArg,
                                   !.kind = o.kind, !.result = o.result]
  /\ UNCHANGED <<phase, args, cfg, seen, next_id, docOf, rng, fams>>

\* every operation of the cache
Next == Insert \/ InsertBatch \/ GetDupBuckets \/ GetDups \/ Return

Spec == Init /\ [][Next]_vars

\* the inserting operations alone
NextInsert == Insert \/ InsertBatch \/ Return

SpecInsert == Init /\ [][NextInsert]_vars

NextConfig == New \/ PercentFound

SpecConfig == InitConfig /\ [][NextConfig]_vars

\* the inserting operations on a cache in DocId mode
SpecDocId == InitDocId /\ [][NextInsert]_vars

NextSig == GetSigOf

\* the signature builder of a constructed cache
SpecSig == Init /\ [][NextSig]_vars

NextHash == RandomSeed \/ NewFamily \/ FamilyHash

SpecHash == InitHash /\ [][NextHash]_vars

NextShingler == NewShingler \/ ShingleDoc

SpecShingler == InitShingler /\ [][NextShingler]_vars

\* ================================================================= claims
InsertOk == ret.op = "insert" /\ ret.kind = "ok"
BandKeys(doc) == GetLshFromDoc(cfg, doc)
SharesBand(d1, d2) == \E i \in 1..cfg.b : BandKeys(d1)[i] = BandKeys(d2)[i]

\* C1: in DupSet mode a successful insert(doc, id) returns exactly the set of
\* previously inserted ids whose document has, in at least one band, the
\* same band key as doc.
C1_InsertReturnsBandCollisions ==
  (InsertOk /\ cfg.dups_on_insert) =>
    ret.result = {j \in DOMAIN docOf \ {ret.id} : SharesBand(docOf[j], ret.doc)}

\* an insert that found an earlier document colliding in one band only
C1_Witness ==
  /\ InsertOk /\ cfg.dups_on_insert
  /\ \E j \in ret.result : BandKeys(docOf[j]) # BandKeys(ret.doc)
  /\ \E j \in ret.result : BandKeys(docOf[j])[1] # BandKeys(ret.doc)[1]

\* C2: insert with an id already in seen_map fails with the duplicate-insert
\* assertion and leaves the buckets, seen_map and next_id as they were; so
\* every id is inserted at most once.
C2_DuplicateInsertRejected ==
  [][(ret'.op = "insert" /\ ret'.id \in DOMAIN seen) =>
       /\ ret'.kind = "AssertionError"
       /\ cache' = cache /\ seen' = seen /\ next_id' = next_id]_vars

\* a rejected insert of an id that is present
C2_Witness ==
  /\ ret.op = "insert" /\ ret.kind = "AssertionError"
  /\ ret.id \in DOMAIN seen
  /\ Cardinality(DOMAIN seen) = 1

\* C3: the set returned by a successful DupSet insert never contains the id
\* that was just inserted.
C3_NoSelfDuplicate ==
  (InsertOk /\ cfg.dups_on_insert) => ret.id \notin ret.result

\* an insert that returned duplicates, after a lookup had been made
C3_Witness ==
  /\ InsertOk /\ cfg.dups_on_insert
  /\ ret.result # {} /\ ret.id \notin ret.result
  /\ lookups > 0

\* C4: next_id is 0 while nothing is inserted and max(inserted ids) + 1
\* afterwards; it never decreases; an insert without an explicit id uses
\* the old next_id, and after a successful insert next_id exceeds its id.
C4_NextId ==
  /\ [](phase = "ready" =>
          next_id = IF DOMAIN seen = {} THEN 0 ELSE MaxOf(DOMAIN seen) + 1)
  /\ [][/\ next_id' >= next_id
        /\ (ret'.op = "insert" /\ ret'.kind = "ok") =>
             /\ next_id' > ret'.id
             /\ ret'.id \in DOMAIN seen'
             /\ ret'.idArg = NoneVal =>
                  ret'.id = IF DOMAIN seen = {} THEN 0 ELSE MaxOf(DOMAIN seen) + 1]_vars

\* an id allocated by the cache after a larger explicit id and then a smaller one
C4_Witness ==
  /\ InsertOk /\ ret.idArg # NoneVal
  /\ next_id > ret.id + 1
  /\ Cardinality(DOMAIN seen) = 2

IsLookup == ret.op \in {"get_dup_buckets", "get_dups"}

\* the band keys a lookup selects: from doc when it is non-empty, else the
\* stored ones of the id
LookupKeys(doc, idArg) == IF doc # <<>> THEN BandKeys(doc) ELSE seen[idArg]
BucketAt(i, key) == IF key \in DOMAIN cache[i] THEN cache[i][key] ELSE <<>>

\* C6: get_dups(doc, doc_id) returns the union of the id lists of the b
\* buckets selected by the band keys, without doc_id when one was given.
C6_GetDupsReturnsUnion ==
  (/\ ret.op = "get_dups"
   /\ \/ ret.doc # <<>>
      \/ cfg.store_signatures /\ ret.idArg \in DOMAIN seen) =>
    /\ ret.kind = "ok"
    /\ ret.result =
         UNION {Range(BucketAt(i, LookupKeys(ret.doc, ret.idArg)[i])) : i \in 1..cfg.b}
           \ {ret.idArg}

\* C7: a lookup leaves the bucket tables (their keys included), seen_map and
\* next_id as they were before the call.
C7_LookupDoesNotMutate ==
  [][ret'.op \in {"get_dup_buckets", "get_dups"} =>
       cache' = cache /\ seen' = seen /\ next_id' = next_id]_vars

\* C8: a lookup without a non-empty document fails with the validation
\* failure (an assertion) unless signatures are stored and the id is known.
C8_InvalidLookupRejected ==
  (/\ IsLookup
   /\ ret.doc = <<>>
   /\ ~(cfg.store_signatures /\ ret.idArg \in DOMAIN seen)) =>
    ret.kind = "AssertionError"

\* the batch as the per-element insert(doc) calls made one after the other
RECURSIVE InsertEach(_, _, _, _, _)
InsertEach(c, st, docs, i, out) ==
  IF i > Len(docs) THEN [st |-> st, kind |-> "ok", result |-> out]
  ELSE LET one == InsertCall(c, st, docs[i], NoneVal)
       IN  IF one.kind # "ok"
             THEN [st |-> one.st, kind |-> one.kind, result |-> <<>>]
             ELSE InsertEach(c, one.st, docs, i + 1, Append(out, one.result))

BatchAsInserts(docs) ==
  LET ref == InsertEach(cfg, St, docs, 1, <<>>)
  IN  /\ ret'.kind = ref.kind
      /\ ret'.result = ref.result
      /\ seen' = ref.st.seen
      /\ next_id' = ref.st.next_id
      /\ cache' = ref.st.cache
      /\ docOf' = ref.st.docOf

\* an element insert_batch unpacks into (doc, id)
IsPair(e) == Len(e) = 2 /\ IsIntToken(e[2])

\* C9 as stated: for every sequence of documents insert_batch behaves as one
\* insert(doc) per element, in order.
C9_BatchIsInsertPerElement ==
  [][ret'.op = "insert_batch" => BatchAsInserts(ret'.docs)]_vars

\* C9 amended: for every sequence of documents none of which is a two-item
\* sequence ending in an integer, insert_batch behaves as one insert(doc)
\* per element, in order, and returns the results in that order.
C9_BatchIsInsertPerElementNoPairs ==
  [][(ret'.op = "insert_batch" /\ \A k \in 1..Len(ret'.docs) : ~IsPair(ret'.docs[k])) =>
       BatchAsInserts(ret'.docs)]_vars

\* a batch of two documents whose second found the first
C9_Witness ==
  /\ ret.op = "insert_batch" /\ ret.kind = "ok"
  /\ Len(ret.docs) = 2
  /\ \A k \in 1..2 : ~IsPair(ret.docs[k])
  /\ ret.result[1] = {} /\ ret.result[2] # {}
  /\ ret.docs[1] # ret.docs[2]

\* the (b, r, n) with b*r = n that keep every supplied dimension
Completions(a) ==
  IF a.b = NoneVal /\ a.r = NoneVal /\ a.n = NoneVal
    THEN {<<20, 5, 100>>}
    ELSE {t \in (1..MaxDim) \X (1..MaxDim) \X (1..(MaxDim * MaxDim)) :
            /\ t[1] * t[2] = t[3]
            /\ a.b # NoneVal => t[1] = a.b
            /\ a.r # NoneVal => t[2] = a.r
            /\ a.n # NoneVal => t[3] = a.n}

\* none of (b, r, n), b and r, n with exactly one of b and r, or all three
CoveredArgs(a) ==
  \/ a.b = NoneVal /\ a.r = NoneVal /\ a.n = NoneVal
  \/ a.b # NoneVal /\ a.r # NoneVal
  \/ a.n # NoneVal /\ (a.b # NoneVal \/ a.r # NoneVal)

\* C10: for these argument shapes the constructor succeeds exactly when a
\* completion with b*r = n exists, the resolved dimensions are that
\* completion, and it fails with the configuration assertion otherwise.
C10_ConfigResolution ==
  (ret.op = "new" /\ CoveredArgs(args)) =>
    /\ phase = "ready" <=> Completions(args) # {}
    /\ phase = "ready" => Completions(args) = {<<cfg.b, cfg.r, cfg.n>>}
    /\ phase # "ready" => phase = "error" /\ ret.kind = "AssertionError"

\* b derived from n and r
C10_Witness ==
  /\ ret.op = "new" /\ phase = "ready"
  /\ args.b = NoneVal /\ args.r # NoneVal /\ args.n # NoneVal
  /\ cfg.b > 1 /\ cfg.r > 1 /\ cfg.b # cfg.r

\* the divisors b of m with 1 < b <= sqrt(m)
BandCandidates(m) == {k \in 2..m : k * k <= m /\ m % k = 0}

\* C11: with only n supplied, b is the largest divisor of n with
\* 1 < b <= sqrt(n) and r is n/b; when there is no such divisor (every
\* prime n) the constructor fails with the configuration assertion.
C11_OnlyRowsFactored ==
  (/\ ret.op = "new"
   /\ args.b = NoneVal /\ args.r = NoneVal /\ args.n # NoneVal) =>
    IF BandCandidates(args.n) = {}
      THEN phase = "error" /\ ret.kind = "AssertionError"
      ELSE /\ phase = "ready"
           /\ cfg.b = MaxOf(BandCandidates(args.n))
           /\ cfg.r = args.n \div cfg.b
           /\ cfg.n = args.n

\* n = 12 resolved to 3 bands of 4 rows, not to 2 bands of 6
C11_Witness ==
  /\ ret.op = "new" /\ phase = "ready"
  /\ args.b = NoneVal /\ args.r = NoneVal /\ args.n = 12
  /\ cfg.b = 3 /\ cfg.r = 4
  /\ Cardinality(BandCandidates(args.n)) = 2

\* the shingles of length k the specification lists for doc, in order
ShinglesOfLen(doc, k) ==
  IF Len(doc) < k
    THEN <<[p \in 1..k |->
              IF p <= k - Len(doc) THEN NoneTok ELSE doc[p - (k - Len(doc))]]>>
    ELSE [j \in 1..(Len(doc) - k + 1) |-> [p \in 1..k |-> doc[j + p - 1]]]

RECURSIVE ShinglesOfRange(_, _, _)
ShinglesOfRange(doc, k, kmax) ==
  IF k > kmax THEN <<>>
  ELSE ShinglesOfLen(doc, k) \o ShinglesOfRange(doc, k + 1, kmax)

\* C12: shingle(doc) emits, for each k from k_min to k_max in increasing
\* order, one padded shingle when |doc| < k and otherwise the |doc| - k + 1
\* windows doc[j .. j+k) in increasing j; every shingle has a length in the
\* range and every k contributes at least one.
C12_ShingleEnumeration ==
  ret.op = "shingle" =>
    LET kmin == cfg.shingler.begin
        kmax == cfg.shingler.end - 1
    IN  /\ ret.result = ShinglesOfRange(ret.doc, kmin, kmax)
        /\ \A i \in 1..Len(ret.result) : Len(ret.result[i]) \in kmin..kmax
        /\ \A k \in kmin..kmax :
             \E i \in 1..Len(ret.result) : Len(ret.result[i]) = k
        /\ \A i \in 1..(Len(ret.result) - 1) :
             Len(ret.result[i]) <= Len(ret.result[i + 1])

\* a two-token document under the range [1, 3]: two windows, one window,
\* then one padded shingle
C12_Witness ==
  /\ ret.op = "shingle"
  /\ cfg.shingler.begin = 1 /\ cfg.shingler.end = 4
  /\ Len(ret.doc) = 2
  /\ Len(ret.result) = 4
  /\ ret.result[4] = <<NoneTok>> \o ret.doc

\* C13: Shingler(k_min, k_max) is rejected with the validation assertion
\* whenever k_min < 1 or a supplied k_max is smaller than k_min (k_max = 0
\* included), and every accepted Shingler has k_max >= k_min >= 1.
C13_InvalidRangeRejected ==
  ret.op = "Shingler" =>
    /\ (\/ args.shingle_len < 1
        \/ args.max_shingle # NoneVal /\ args.max_shingle < args.shingle_len)
         => phase = "error" /\ ret.kind = "AssertionError"
    /\ phase = "ready" =>
         cfg.shingler.begin >= 1 /\ cfg.shingler.end - 1 >= cfg.shingler.begin

\* the cache of the current step had it been built with dups_on_insert=True
DupSetCfg == [cfg EXCEPT !.dups_on_insert = TRUE]

SameStateAs(ref) ==
  /\ ret'.kind = ref.kind
  /\ seen' = ref.st.seen
  /\ next_id' = ref.st.next_id
  /\ cache' = ref.st.cache

\* C14: in DocId mode a successful insert returns the id the document was
\* stored under (the explicit id, or the next_id it allocated), and every
\* insert and insert_batch changes the buckets, seen_map and next_id exactly
\* as the same call does on a DupSet-mode cache in the same state.
C14_DocIdModeSameState ==
  [][/\ (ret'.op = "insert") =>
         /\ SameStateAs(InsertCall(DupSetCfg, St, ret'.doc, ret'.idArg))
         /\ (ret'.kind = "ok") =>
              /\ ret'.result = (IF ret'.idArg = NoneVal THEN next_id ELSE ret'.idArg)
              /\ ret'.result \in DOMAIN seen' \ DOMAIN seen
              /\ docOf'[ret'.result] = ret'.doc
     /\ (ret'.op = "insert_batch") =>
         SameStateAs(InsertBatchCall(DupSetCfg, St, ret'.docs))]_vars

\* an allocated id returned for a document that collides with an earlier one
C14_Witness ==
  /\ InsertOk /\ ~cfg.dups_on_insert
  /\ ret.idArg = NoneVal /\ ret.result = 1 /\ next_id = 2
  /\ \E j \in DOMAIN docOf \ {ret.id} : SharesBand(docOf[j], ret.doc)

\* families built by the same constructor with the same (num_hashes,
\* universe_size) from the same seed, the same number of draws after it
SameConstruction(f, g) ==
  /\ f.variant # "none"
  /\ f.variant = g.variant
  /\ f.num_hashes = g.num_hashes /\ f.num_buckets = g.num_buckets
  /\ f.seedAt = g.seedAt /\ f.drawnAt = g.drawnAt

RECURSIVE Times(_, _)
Times(v, k) == IF k = 0 THEN 1 ELSE v * Times(v, k - 1)

NoBandAgrees(b, r, p, q) == Times(Times(q, r) - Times(p, r), b)

\* C16: theoretical_percent_found(s) is 1 - (1 - s^r)^b for the resolved
\* (b, r): 0 at s = 0, 1 at s = 1, non-decreasing in s on [0, 1], 3/4 for
\* (b=2, r=1, s=1/2) and 1/4 for (b=1, r=2, s=1/2).
C16_TheoreticalCurve ==
  ret.op = "theoretical_percent_found" =>
    LET q == SimSteps
        d == Times(q, cfg.r * cfg.b)
    IN  /\ ret.result.den = d
        /\ ret.result.num = d - NoBandAgrees(cfg.b, cfg.r, ret.x, q)
        /\ ret.x = 0 => ret.result.num = 0
        /\ ret.x = q => ret.result.num = ret.result.den
        /\ \A p2 \in ret.x..q :
             LET hi == TheoreticalPercentFound(cfg, Frac(p2, q))
             IN  hi.den = ret.result.den /\ hi.num >= ret.result.num
        /\ (cfg.b = 2 /\ cfg.r = 1 /\ 2 * ret.x = q) =>
             4 * ret.result.num = 3 * ret.result.den
        /\ (cfg.b = 1 /\ cfg.r = 2 /\ 2 * ret.x = q) =>
             4 * ret.result.num = ret.result.den

\* the curve of 2 bands of 1 row at s = 1/2
C16_Witness ==
  /\ ret.op = "theoretical_percent_found"
  /\ cfg.b = 2 /\ cfg.r = 1 /\ 2 * ret.x = SimSteps
  /\ 4 * ret.result.num = 3 * ret.result.den

\* the number of positions of the list arr holding id
Occurrences(arr, id) == Cardinality({p \in 1..Len(arr) : arr[p] = id})

\* the band keys of the document stored under id
KeysOfId(id) == LshOf(cfg, docOf[id])

\* C17: every id of seen_map is in exactly one bucket list of each band, the
\* one under its document's band key, exactly once (so in b buckets in
\* all), and no bucket list holds an id that is not in seen_map.
C17_OneBucketPerBand ==
  phase = "ready" =>
    /\ \A id \in DOMAIN seen : \A i \in 1..cfg.b :
         /\ KeysOfId(id)[i] \in DOMAIN cache[i]
         /\ \A k \in DOMAIN cache[i] :
              Occurrences(cache[i][k], id) = IF k = KeysOfId(id)[i] THEN 1 ELSE 0
    /\ \A i \in 1..cfg.b : \A k \in DOMAIN cache[i] :
         Range(cache[i][k]) \subseteq DOMAIN seen
    /\ Len(cache) = cfg.b

\* two stored ids sharing the bucket of one band only, next to a bucket
\* that a lookup left empty
C17_Witness ==
  /\ phase = "ready" /\ lookups > 0
  /\ \E id1 \in DOMAIN seen, id2 \in DOMAIN seen :
       /\ id1 # id2
       /\ \E i \in 1..cfg.b : KeysOfId(id1)[i] = KeysOfId(id2)[i]
       /\ \E i \in 1..cfg.b : KeysOfId(id1)[i] # KeysOfId(id2)[i]
  /\ \E i \in 1..cfg.b : \E k \in DOMAIN cache[i] : cache[i][k] = <<>>

IsPrefixOf(a, c) == Len(a) <= Len(c) /\ SubSeq(c, 1, Len(a)) = a

\* the ids of the inserts a step completed, in the order they completed
RECURSIVE BatchIds(_, _, _, _, _)
BatchIds(c, st, docs, i, out) ==
  IF i > Len(docs) THEN out
  ELSE LET one == BatchElem(c, st, docs[i])
       IN  IF one.kind # "ok" THEN out
           ELSE BatchIds(c, one.st, docs, i + 1, Append(out, one.id))

Completed ==
  IF ret'.op = "insert" /\ ret'.kind = "ok" THEN <<ret'.id>>
  ELSE IF ret'.op = "insert_batch" THEN BatchIds(cfg, St, ret'.docs, 1, <<>>)
  ELSE <<>>

\* the list tail holds ids of done in the order of done, each at most once
InOrderOf(tail, done) ==
  \E f \in [1..Len(tail) -> 1..Len(done)] :
    /\ \A p \in 1..Len(tail) : done[f[p]] = tail[p]
    /\ \A p \in 1..Len(tail), q \in 1..Len(tail) : p < q => f[p] < f[q]

\* C18: bucket lists and seen_map are append-only: in every step each
\* bucket list is a prefix of the same list afterwards, what is added to it
\* are the ids of the inserts the step completed, in the order in which they
\* completed, and no id leaves seen_map.
C18_AppendOnly ==
  [][/\ DOMAIN seen \subseteq DOMAIN seen'
     /\ DOMAIN seen' \ DOMAIN seen = Range(Completed)
     /\ \A i \in 1..cfg.b : \A k \in DOMAIN cache[i] :
          /\ k \in DOMAIN cache'[i]
          /\ IsPrefixOf(cache[i][k], cache'[i][k])
     /\ \A i \in 1..cfg.b : \A k \in DOMAIN cache'[i] :
          LET old == IF k \in DOMAIN cache[i] THEN cache[i][k] ELSE <<>>
          IN  InOrderOf(SubSeq(cache'[i][k], Len(old) + 1, Len(cache'[i][k])),
                        Completed)]_vars

\* a bucket list holding a larger id before a smaller one
C18_Witness ==
  /\ phase = "ready"
  /\ \E i \in 1..cfg.b : \E k \in DOMAIN cache[i] :
       /\ Len(cache[i][k]) = 2
       /\ cache[i][k][1] > cache[i][k][2]
  /\ lookups > 0

MinOf(S) == CHOOSE m \in S : \A k \in S : m <= k

\* hash_i(x) mod U of the cache's family
RowHash(i, x) == MultHash(x, cfg.params[i]) % UniverseSize

\* C19: the signature of a fingerprint set has length n and sig[i] is the
\* minimum over the fingerprints x of hash_i(x) mod U; for a non-empty set
\* every entry is in [0, U), for the empty set every entry is the
\* maximum-value sentinel.
C19_SignatureIsMinimum ==
  ret.op = "_get_sig" =>
    /\ Len(ret.result) = cfg.n
    /\ \A i \in 1..cfg.n :
         IF ret.vec = {}
           THEN ret.result[i] = MaxInt
           ELSE /\ ret.result[i] = MinOf({RowHash(i, x) : x \in ret.vec})
                /\ ret.result[i] \in 0..(UniverseSize - 1)

\* a signature whose entries are the minima of different fingerprints
C19_Witness ==
  /\ ret.op = "_get_sig" /\ Cardinality(ret.vec) >= 2
  /\ \E i \in 1..cfg.n, j \in 1..cfg.n : \E x \in ret.vec, y \in ret.vec :
       /\ x # y
       /\ ret.result[i] = RowHash(i, x) /\ ret.result[i] < RowHash(i, y)
       /\ ret.result[j] = RowHash(j, y) /\ ret.result[j] < RowHash(j, x)

====
